---- MODULE Spec2Model ----
(***************************************************************************)
(* Model of zshot's REGEN linker, src/zshot/linker/linker_regen/           *)
(* linker_regen.py: one LinkerRegen object, its constructor, set_kg,       *)
(* load_models / load_tokenizer and predict.                               *)
(*                                                                         *)
(* Python's None is the empty sequence <<>> and a present value x is <<x>> *)
(* for the trie; the model and the tokenizer are "None" or "loaded".       *)
(* Document ids and mention ids are 1-based here (Python: 0-based).        *)
(***************************************************************************)
EXTENDS Integers, Sequences, FiniteSets, TLC

\* ------------------------------------------------------------------ bounds
MaxDocs == 2        \* documents in one predict call
MaxEntities == 2    \* entities in one set_kg call
LoadCap == 2        \* saturation of the from_pretrained counters

\* ------------------------------------------------------------ input spaces
None == <<>>
Some(x) == <<x>>

\* num_beams values the linker is constructed with (10 is the default)
NumBeamsChoices == {1, 2, 10}

\* Entity names of the knowledge bases
Names == {"New York", "York"}

Mention(s, e) == [start |-> s, end |-> e]

\* The documents of the calls: each is its list of mentions (doc._.mentions),
\* in the order supplied; the last one is not in offset order.
DocSet == { <<>>, <<Mention(0, 2)>>, <<Mention(4, 6), Mention(1, 3)>> }

\* Sequences over S of length 0..n
SeqsUpTo(S, n) == UNION { [1..k -> S] : k \in 0..n }

Min(a, b) == IF a <= b THEN a ELSE b

\* ------------------------------------------------- external collaborators
\* tokenizer(e.name)['input_ids'][0].tolist()
Tokenize(name) == IF name = "New York" THEN <<5, 8>> ELSE <<8>>

\* tokenizer.decode(out, skip_special_tokens=True)
Decode(seq) == IF seq = <<5, 8>> THEN "New York" ELSE "York"

Tokens == {3, 5, 7, 8}

\* Prefixes the beam search hands to prefix_allowed_tokens_fn
BeamPrefixes == { <<>>, <<5>>, <<7>> }

\* zshot.linker.linker_regen.trie.Trie: the nodes are the stored prefixes,
\* the ends the complete sequences.
TrieAdd(t, seq) ==
    [nodes |-> t.nodes \cup { SubSeq(seq, 1, k) : k \in 0..Len(seq) },
     ends  |-> t.ends \cup {seq}]

RECURSIVE TrieAddAll(_, _)
TrieAddAll(t, seqs) ==
    IF seqs = <<>> THEN t ELSE TrieAddAll(TrieAdd(t, Head(seqs)), Tail(seqs))

Trie(seqs) == TrieAddAll([nodes |-> {<<>>}, ends |-> {}], seqs)

\* Trie.postfix(prefix): the tokens that may follow prefix
Postfix(t, prefix) ==
    IF prefix \in t.nodes
    THEN { tok \in Tokens : Append(prefix, tok) \in t.nodes }
    ELSE {}

\* The trie a caller may hand to the constructor
SuppliedTrie == Trie(<< <<7, 3>>, <<7, 8>> >>)

\* Linker.set_kg of the base class: records the entities
LinkerSetKg(ents) == ents

\* ------------------------------------------------------------------- state
VARIABLES
    model, tokenizer,        \* self.model, self.tokenizer
    num_beams,               \* self.num_beams
    skip_set_kg,             \* self.skip_set_kg
    trie,                    \* self.trie
    entities,                \* self.entities (<<>>: none recorded)
    ctorTrie,                \* the trie argument of __init__
    pc,                      \* position of predict: idle, generate, done, raised
    docs,                    \* predict's docs
    data_to_link,            \* predict's data_to_link
    sequences, scores,       \* predict's sequences and scores
    docs_pred,               \* predict's docs_pred
    result,                  \* predict's return value (None until it returns)
    lastGen,                 \* the latest model.generate call of this predict
    genCalls,                \* model.generate calls of this predict
    modelLoads, tokLoads,    \* from_pretrained calls so far
    usedUnloaded,            \* a tokenizer or model use found it None
    kgTokenized,             \* set_kg has tokenized an entity name
    lastKg, kgCalled         \* argument of the latest set_kg, set_kg was called

linker == <<model, tokenizer, num_beams, skip_set_kg, trie, entities, ctorTrie>>
locals == <<docs, data_to_link, sequences, scores, docs_pred, result, lastGen, genCalls>>
ghosts == <<modelLoads, tokLoads, usedUnloaded, kgTokenized, lastKg, kgCalled>>
vars == <<linker, pc, locals, ghosts>>

Sat(n) == Min(n + 1, LoadCap)

\* ---------------------------------------------------------------- __init__
Init ==
    /\ model = "None"
    /\ tokenizer = "None"
    /\ num_beams \in NumBeamsChoices
    /\ ctorTrie \in {None, Some(SuppliedTrie)}
    /\ skip_set_kg = (IF ctorTrie = None THEN FALSE ELSE TRUE)
    /\ trie = ctorTrie
    /\ entities = <<>>
    /\ pc = "idle"
    /\ docs = <<>>
    /\ data_to_link = <<>>
    /\ sequences = <<>>
    /\ scores = <<>>
    /\ docs_pred = <<>>
    /\ result = None
    /\ lastGen = None
    /\ genCalls = 0
    /\ modelLoads = 0
    /\ tokLoads = 0
    /\ usedUnloaded = FALSE
    /\ kgTokenized = FALSE
    /\ lastKg = <<>>
    /\ kgCalled = FALSE

\* ------------------------------------------------------------ load_tokenizer
load_tokenizer(tok) == IF tok = "None" THEN "loaded" ELSE tok
TokenizerLoads(tok, n) == IF tok = "None" THEN Sat(n) ELSE n

\* --------------------------------------------------------------- load_models
load_models_model(m) == IF m = "None" THEN "loaded" ELSE m
\* (variant: from_pretrained on every call, the "is None" test lost)
ModelLoads_Always(m, n) == Sat(n)
ModelLoads(m, n) == IF m = "None" THEN Sat(n) ELSE n

\* -------------------------------------------------------------------- set_kg
TokenizeAll(ents) == [i \in 1..Len(ents) |-> Tokenize(ents[i])]

\* (variant: skip_set_kg is not consulted)
SetKgTrie_NoSkip(skip, cur, ents) == Some(Trie(TokenizeAll(ents)))
\* (variant: the new names are added to the index already there)
SetKgTrie_Patch(skip, cur, ents) ==
    IF ~skip
    THEN Some(TrieAddAll(IF cur = None THEN Trie(<<>>) ELSE cur[1], TokenizeAll(ents)))
    ELSE cur
\* self.trie after set_kg(ents)
SetKgTrie(skip, cur, ents) ==
    IF ~skip THEN Some(Trie(TokenizeAll(ents))) ELSE cur

\* self.tokenizer after set_kg
SetKgTokenizer(skip, tok) == IF ~skip THEN load_tokenizer(tok) ELSE tok

set_kg(ents) ==
    /\ pc = "idle"
    /\ entities' = LinkerSetKg(ents)
    /\ tokenizer' = SetKgTokenizer(skip_set_kg, tokenizer)
    /\ tokLoads' = IF ~skip_set_kg THEN TokenizerLoads(tokenizer, tokLoads) ELSE tokLoads
    /\ trie' = SetKgTrie(skip_set_kg, trie, ents)
    /\ kgTokenized' = (kgTokenized \/ (~skip_set_kg /\ ents # <<>>))
    /\ usedUnloaded' = (usedUnloaded \/ (~skip_set_kg /\ ents # <<>> /\ tokenizer' = "None"))
    /\ lastKg' = ents
    /\ kgCalled' = TRUE
    /\ UNCHANGED <<model, num_beams, skip_set_kg, ctorTrie, pc, locals, modelLoads>>

SetKg == \E ents \in SeqsUpTo(Names, MaxEntities) : set_kg(ents)

\* ------------------------------------------------------------------ predict
\* f"{left_context} [START_ENT] {text} [END_ENT] {right_context}": the sentence
\* is identified by where the two markers sit in the document text.
Sentence(mention) == <<mention.start, mention.end>>

\* (variant: a document without mentions still contributes one entry)
DataOfDoc_Placeholder(doc_id, doc) ==
    IF doc = <<>>
    THEN << [id |-> doc_id, mention_id |-> 0, text |-> <<0, 0>>] >>
    ELSE [m \in 1..Len(doc) |->
            [id |-> doc_id, mention_id |-> m, text |-> Sentence(doc[m])]]
\* The data_to_link entries of one document (the inner loop)
DataOfDoc(doc_id, doc) ==
    [m \in 1..Len(doc) |->
        [id |-> doc_id, mention_id |-> m, text |-> Sentence(doc[m])]]

\* The outer loop over enumerate(docs), from document k on
RECURSIVE DataFrom(_, _)
DataFrom(ds, k) ==
    IF k > Len(ds) THEN <<>> ELSE DataOfDoc(k, ds[k]) \o DataFrom(ds, k + 1)

BuildDataToLink(ds) == DataFrom(ds, 1)

\* sentences = [create_input(d['text'], ...) for d in data_to_link]
Sentences(dtl) == [i \in 1..Len(dtl) |-> dtl[i].text]

\* num_return_sequences=min(num_beams, len(entities)) if entities else num_beams
NumReturnSequences(beams, ents) ==
    IF ents # <<>> THEN Min(beams, Len(ents)) ELSE beams

\* (variant: the callback is never installed)
PrefixAllowedTokensFn_Never(t) == "None"
\* prefix_allowed_tokens_fn=None if self.trie is None else self.restrict_decode_vocab
PrefixAllowedTokensFn(t) ==
    IF t = None THEN "None" ELSE "restrict_decode_vocab"

\* restrict_decode_vocab(_, prefix_beam): self.trie.postfix(prefix_beam.tolist())
restrict_decode_vocab(t, prefix_beam) == Postfix(t[1], prefix_beam)

\* What model.generate hands back for a sentence: count sequences (beam
\* search is deterministic, so they are a function of the sentence), and
\* tmp_scores, the scores after the softmax, as weights.
CandSeq(sent, i) == IF (sent[1] + i) % 2 = 1 THEN <<5, 8>> ELSE <<8>>
BestOf(sent, count) == IF sent[1] = 0 THEN 1 ELSE Min(2, count)
GenOutputs(sent, count) ==
    [sequences  |-> [i \in 1..count |-> CandSeq(sent, i)],
     tmp_scores |-> [i \in 1..count |-> IF i = BestOf(sent, count) THEN 2 ELSE 1]]

\* torch.argmax(tmp_scores) and max(tmp_scores...): defined on non-empty lists
Argmax(s) ==
    CHOOSE i \in DOMAIN s :
        \A j \in DOMAIN s : s[i] >= s[j] /\ (s[j] = s[i] => i <= j)
MaxOf(s) == s[Argmax(s)]

\* Whether lines 123-125 raise on these outputs (argmax / max of nothing)
SelectionRaises(outputs) == Len(outputs.tmp_scores) = 0

\* (variant: the mention is looked up by the wrong index)
MakeSpan_FirstMention(ds, data, out, score) ==
    LET mention == ds[data.id][1]
    IN  [start |-> mention.start, end |-> mention.end,
         label |-> Decode(out), score |-> score]
\* Span(mention.start, mention.end, label=label, score=score)
MakeSpan(ds, data, out, score) ==
    LET mention == ds[data.id][data.mention_id]
    IN  [start |-> mention.start, end |-> mention.end,
         label |-> Decode(out), score |-> score]

\* docs_pred[doc_id].append(span), creating the list when the id is new
AddSpan(dp, doc_id, span) ==
    IF doc_id \in DOMAIN dp
    THEN [dp EXCEPT ![doc_id] = Append(@, span)]
    ELSE [d \in DOMAIN dp \cup {doc_id} |-> IF d = doc_id THEN <<span>> ELSE dp[d]]

\* The loop over zip(data_to_link, sequences, scores), its first k rounds
RECURSIVE DocsPred(_, _, _, _, _)
DocsPred(ds, dtl, seqs, scs, k) ==
    IF k = 0 THEN <<>>
    ELSE AddSpan(DocsPred(ds, dtl, seqs, scs, k - 1), dtl[k].id,
                 MakeSpan(ds, dtl[k], seqs[k], scs[k]))

ZipLen(dtl, seqs, scs) == Min(Len(dtl), Min(Len(seqs), Len(scs)))

\* (variant: reverse=True)
RECURSIVE SortedKeys_Reverse(_)
SortedKeys_Reverse(S) ==
    IF S = {} THEN <<>>
    ELSE LET m == CHOOSE x \in S : \A y \in S : x >= y
         IN  <<m>> \o SortedKeys_Reverse(S \ {m})
\* The keys of docs_pred in the order sorted(docs_pred.items()) gives them
RECURSIVE SortedKeys(_)
SortedKeys(S) ==
    IF S = {} THEN <<>>
    ELSE LET m == CHOOSE x \in S : \A y \in S : x <= y
         IN  <<m>> \o SortedKeys(S \ {m})

\* [val for key, val in sorted(docs_pred.items(), reverse=False)]
SortedValues(dp) ==
    LET keys == SortedKeys(DOMAIN dp)
    IN  [i \in 1..Len(keys) |-> dp[keys[i]]]

\* Lines 76-98: load the models, build data_to_link and the sentences, and
\* return [] when there is no sentence.
PredictStart(ds) ==
    /\ pc = "idle"
    /\ model' = load_models_model(model)
    /\ modelLoads' = ModelLoads(model, modelLoads)
    /\ tokenizer' = load_tokenizer(tokenizer)
    /\ tokLoads' = TokenizerLoads(tokenizer, tokLoads)
    /\ docs' = ds
    /\ data_to_link' = BuildDataToLink(ds)
    /\ IF Sentences(data_to_link') = <<>>
       THEN pc' = "done" /\ result' = Some(<<>>)
       ELSE pc' = "generate" /\ result' = None
    /\ sequences' = <<>>
    /\ scores' = <<>>
    /\ docs_pred' = <<>>
    /\ lastGen' = None
    /\ genCalls' = 0
    /\ UNCHANGED <<num_beams, skip_set_kg, trie, entities, ctorTrie,
                   usedUnloaded, kgTokenized, lastKg, kgCalled>>

Predict == \E ds \in SeqsUpTo(DocSet, MaxDocs) : PredictStart(ds)

\* Lines 102-125: one round of the loop over the sentences. The library
\* returns count sequences and, when a callback is installed, calls it with
\* a beam's prefix.
GenerateRound(count, prefix) ==
    /\ pc = "generate"
    /\ Len(sequences) < Len(Sentences(data_to_link))
    /\ LET nrs == NumReturnSequences(num_beams, entities)
           fn == PrefixAllowedTokensFn(trie)
           sent == Sentences(data_to_link)[Len(sequences) + 1]
           outputs == GenOutputs(sent, count)
       IN  /\ count \in {0, nrs}
           /\ lastGen' = Some([num_beams |-> num_beams,
                               num_return_sequences |-> nrs,
                               prefix_allowed_tokens_fn |-> fn,
                               prefix |-> IF fn = "None" THEN None ELSE Some(prefix),
                               allowed |-> IF fn = "None" THEN {}
                                           ELSE restrict_decode_vocab(trie, prefix),
                               count |-> count])
           /\ IF SelectionRaises(outputs)
              THEN /\ pc' = "raised"
                   /\ UNCHANGED <<sequences, scores>>
              ELSE /\ pc' = pc
                   /\ sequences' = Append(sequences,
                                          outputs.sequences[Argmax(outputs.tmp_scores)])
                   /\ scores' = Append(scores, MaxOf(outputs.tmp_scores))
    /\ genCalls' = genCalls + 1
    /\ usedUnloaded' = (usedUnloaded \/ tokenizer = "None" \/ model = "None")
    /\ UNCHANGED <<linker, docs, data_to_link, docs_pred, result,
                   modelLoads, tokLoads, kgTokenized, lastKg, kgCalled>>

Generate ==
    \E count \in {0, NumReturnSequences(num_beams, entities)},
       prefix \in BeamPrefixes :
        GenerateRound(count, prefix)

\* Lines 127-137: group the spans by document and return them
Assemble ==
    /\ pc = "generate"
    /\ Len(sequences) = Len(Sentences(data_to_link))
    /\ docs_pred' = DocsPred(docs, data_to_link, sequences, scores,
                             ZipLen(data_to_link, sequences, scores))
    /\ result' = Some(SortedValues(docs_pred'))
    /\ pc' = "done"
    /\ lastGen' = None
    /\ usedUnloaded' = (usedUnloaded \/ tokenizer = "None")
    /\ UNCHANGED <<linker, docs, data_to_link, sequences, scores, genCalls,
                   modelLoads, tokLoads, kgTokenized, lastKg, kgCalled>>

\* predict has returned or raised: its locals are gone
Return ==
    /\ pc \in {"done", "raised"}
    /\ pc' = "idle"
    /\ docs' = <<>>
    /\ data_to_link' = <<>>
    /\ sequences' = <<>>
    /\ scores' = <<>>
    /\ docs_pred' = <<>>
    /\ result' = None
    /\ lastGen' = None
    /\ genCalls' = 0
    /\ UNCHANGED <<linker, ghosts>>

Next == SetKg \/ Predict \/ Generate \/ Assemble \/ Return

Spec == Init /\ [][Next]_vars

\* ================================================================== claims
Offsets(xs) == [j \in 1..Len(xs) |-> <<xs[j].start, xs[j].end>>]
HasMentions(ds) == \E d \in 1..Len(ds) : ds[d] # <<>>
DocIds(ds) == [i \in 1..Len(ds) |-> i]
IdHasMentions(i) == docs[i] # <<>>
\* Ids of the documents of this call that have a mention, ascending
MentionedIds == SelectSeq(DocIds(docs), IdHasMentions)

\* C1: when some document has a mention, the returned list has one entry per
\* input document, entry i holding the spans of document i (an empty list for
\* a document without mentions).
C1_OneEntryPerDocument ==
    (pc = "done" /\ HasMentions(docs)) =>
        /\ Len(result[1]) = Len(docs)
        /\ \A i \in 1..Len(docs) : Offsets(result[1][i]) = Offsets(docs[i])

\* C2: a predict call over no documents, or over documents without any
\* mention, returns the empty list and issues no model.generate call.
C2_EmptyShortCircuit ==
    (pc # "idle" /\ ~HasMentions(docs)) =>
        /\ pc = "done"
        /\ result = Some(<<>>)
        /\ genCalls = 0
        /\ lastGen = None

C2_Witness ==
    /\ pc = "done"
    /\ Len(docs) = 2
    /\ ~HasMentions(docs)
    /\ result = Some(<<>>)
    /\ model = "loaded"

\* C3: when predict returns, every mention has exactly one span, in the list
\* of its own document, with the mention's start and end; the returned lists
\* are those lists and nothing else.
C3_SpanOffsets ==
    pc = "done" =>
        /\ \A d \in 1..Len(docs) : docs[d] # <<>> => d \in DOMAIN docs_pred
        /\ \A d \in DOMAIN docs_pred :
              /\ d \in 1..Len(docs)
              /\ Len(docs_pred[d]) = Len(docs[d])
              /\ \A j \in 1..Len(docs[d]) :
                    /\ docs_pred[d][j].start = docs[d][j].start
                    /\ docs_pred[d][j].end = docs[d][j].end
        /\ Len(result[1]) = Cardinality(DOMAIN docs_pred)
        /\ \A i \in 1..Len(result[1]) :
              \E d \in DOMAIN docs_pred : result[1][i] = docs_pred[d]

C3_Witness ==
    /\ pc = "done"
    /\ Len(docs) = 2
    /\ Len(docs[1]) = 1
    /\ Len(docs[2]) = 2
    /\ genCalls = 3

\* C4: the returned lists follow ascending document id, and inside a list the
\* spans follow the order in which the document's mentions were supplied.
C4_OrderPreserved ==
    pc = "done" =>
        /\ Len(result[1]) = Len(MentionedIds)
        /\ \A i \in 1..Len(MentionedIds) :
              Offsets(result[1][i]) = Offsets(docs[MentionedIds[i]])

C4_Witness ==
    /\ pc = "done"
    /\ Len(docs) = 2
    /\ Len(docs[1]) = 2
    /\ docs[1][1].start > docs[1][2].start
    /\ Len(docs[2]) = 1
    /\ Len(result[1]) = 2

\* C5: every generate call (here: one that returned candidates) asks for at
\* most num_beams sequences and, when entities are known, for at most as many
\* as there are distinct known entities.
C5_ReturnSequencesCapped ==
    (lastGen # None /\ lastGen[1].count > 0) =>
        /\ lastGen[1].num_return_sequences <= num_beams
        /\ entities # <<>> =>
              lastGen[1].num_return_sequences
                  <= Cardinality({ entities[i] : i \in 1..Len(entities) })

C7_NoAbort ==
    (lastGen # None /\ lastGen[1].count = 0 /\ Len(data_to_link) > 1) =>
        pc # "raised"

\* The tokens that continue prefix p towards a sequence stored in index t
AllowedNext(t, p) ==
    { tok \in Tokens :
        \E q \in t.ends :
            /\ Len(q) > Len(p)
            /\ SubSeq(q, 1, Len(p)) = p
            /\ q[Len(p) + 1] = tok }

\* C8: a generate call carries the callback exactly when self.trie is not
\* None, and the callback answers a beam's prefix with the tokens the trie
\* allows after it; without a trie no callback is installed.
C8_ConstrainedIffTrie ==
    lastGen # None =>
        LET g == lastGen[1]
        IN  /\ (g.prefix_allowed_tokens_fn = "restrict_decode_vocab") <=> (trie # None)
            /\ (g.prefix_allowed_tokens_fn = "None") <=> (trie = None)
            /\ trie # None =>
                  /\ g.prefix # None
                  /\ g.allowed = AllowedNext(trie[1], g.prefix[1])
            /\ trie = None => g.prefix = None

C8_Witness ==
    /\ lastGen # None
    /\ ctorTrie = None
    /\ trie # None
    /\ lastGen[1].prefix = Some(<<5>>)
    /\ lastGen[1].allowed = {8}

\* The index holds exactly the sequences seqs: its ends are the sequences and
\* its nodes are their prefixes.
IsIndexOver(t, seqs) ==
    /\ t.ends = { seqs[i] : i \in 1..Len(seqs) }
    /\ t.nodes = {<<>>} \cup
           UNION { { SubSeq(seqs[i], 1, k) : k \in 0..Len(seqs[i]) } : i \in 1..Len(seqs) }

\* C9: without a supplied trie, self.trie is None until the first set_kg and
\* afterwards the complete index over exactly the tokenized names of the
\* latest set_kg call.
C9_WholesaleRebuild ==
    ctorTrie = None =>
        IF ~kgCalled
        THEN trie = None
        ELSE /\ trie # None
             /\ IsIndexOver(trie[1], TokenizeAll(lastKg))

C9_Witness ==
    /\ ctorTrie = None
    /\ kgCalled
    /\ lastKg = <<"York">>
    /\ trie # None
    /\ <<5>> \notin trie[1].nodes
    /\ model = "loaded"

\* C10: the model and the tokenizer are each loaded at most once, stay loaded,
\* and are never used while still None.
C10_LoadedOnce ==
    /\ modelLoads <= 1
    /\ tokLoads <= 1
    /\ ~usedUnloaded
    /\ (model = "loaded") <=> (modelLoads = 1)
    /\ (tokenizer = "loaded") <=> (tokLoads = 1)
    /\ model = "loaded" => tokenizer = "loaded"

C10_Witness ==
    /\ kgTokenized
    /\ pc = "generate"
    /\ genCalls >= 1
    /\ modelLoads = 1
    /\ tokLoads = 1
====
